---------------------------- MODULE Spec2Model ----------------------------
(***************************************************************************)
(* Model of the image-translation service: paragraph reconstruction from   *)
(* the OCR symbol tree (app.ts, getParagraphText), the region sort and the *)
(* positional pairing with the translated strings (app.ts, POST            *)
(* /translate-image), and the overlay renderer (overlay.ts,                *)
(* overlayTranslations and wrapLines).                                     *)
(* The region extraction loop (app.ts), the browser client (main.js) and   *)
(* the success counter (counter.js) are modelled as specifications of      *)
(* their own over the same variables.                                      *)
(*                                                                         *)
(* Texts are sequences of one-character strings.  Pixel coordinates are    *)
(* integers; on integers the floating-point expressions of the source      *)
(* (floor(n*0.9), floor(n*0.08), floor(n*0.75), ceil(n*1.25)) agree with   *)
(* the integer formulas used below.                                        *)
(***************************************************************************)
EXTENDS Integers, Sequences, FiniteSets, TLC

VARIABLES
    \* getParagraphText
    pcT, out, ptext, nWords, symbols, lastSep,
    \* POST /translate-image handler
    pc, regions, presort, sent, translated, toDraw,
    \* overlayTranslations
    img, metric, ri, rect, fontSize, startFont, shrinks, lines, lineHeight,
    wrapFont, cy, li, drawn, ops, rendered, ctx,
    \* overlayTranslations called again with the regions reordered
    pass, firstDraw, firstOps, firstRendered,
    \* region extraction loop
    nPages, nBlocks, nParas, pI, bI, gI, visited,
    \* main.js
    currentFile, btnDisabled, origImg, outImg, progressHidden, errorText,
    requests, started,
    \* counter.js
    count, barWidth, got, calls

textVars == <<pcT, out, ptext, nWords, symbols, lastSep>>
pipeVars == <<regions, presort, sent, translated, toDraw>>
renderVars == <<img, metric, ri, rect, fontSize, startFont, shrinks, lines,
                lineHeight, wrapFont, cy, li, drawn, ops, rendered, ctx>>
orderVars == <<pass, firstDraw, firstOps, firstRendered>>
extractVars == <<nPages, nBlocks, nParas, pI, bI, gI, visited>>
clientVars == <<currentFile, btnDisabled, origImg, outImg, progressHidden,
                errorText, requests, started>>
counterVars == <<count, barWidth, got, calls>>
otherVars == <<orderVars, extractVars, clientVars, counterVars>>
vars == <<textVars, pc, pipeVars, renderVars, otherVars>>

----------------------------------------------------------------------------
(* Bounds of the model *)

MaxWords == 2
MaxSyms == 3
MaxRegions == 3
MaxText == 5
MaxParagraphs == 3
MaxReordered == 2
MaxFiles == 2
MaxRequests == 2
MaxCalls == 25

----------------------------------------------------------------------------
(* Generic helpers *)

Min2(a, b) == IF a <= b THEN a ELSE b
Max2(a, b) == IF a >= b THEN a ELSE b
MinOf(S) == CHOOSE m \in S : \A n \in S : m <= n
MaxOf(S) == CHOOSE m \in S : \A n \in S : m >= n
Abs(a) == IF a < 0 THEN -a ELSE a

SeqsUpTo(S, n) == UNION {[1..k -> S] : k \in 0..n}

Count(s, c) == Cardinality({i \in 1..Len(s) : s[i] = c})

\* the subsequence of s at the indices in I, in order
RECURSIVE SubseqAt(_, _, _)
SubseqAt(s, I, i) ==
    IF i > Len(s) THEN <<>>
    ELSE (IF i \in I THEN <<s[i]>> ELSE <<>>) \o SubseqAt(s, I, i + 1)

\* JavaScript's \s and String.prototype.trim, on the model's alphabet
WhiteSpace == {" ", "\t", "\n"}
HSpace == {" ", "\t"}

TrimWs(s) ==
    LET ix == {i \in 1..Len(s) : s[i] \notin WhiteSpace}
    IN IF ix = {} THEN <<>> ELSE SubSeq(s, MinOf(ix), MaxOf(ix))

----------------------------------------------------------------------------
(* getParagraphText: paragraph text from the symbols' detected breaks *)

Unset == [form |-> "unset", sym |-> "", num |-> 0]
SymBr(s) == [form |-> "sym", sym |-> s, num |-> 0]
NumBr(n) == [form |-> "num", sym |-> "", num |-> n]

\* br === 'NAME' and br === n (strict equality: the form must match too)
IsSym(br, s) == br.form = "sym" /\ br.sym = s
IsNum(br, n) == br.form = "num" /\ br.num = n

BreakCodes ==
    {Unset}
    \cup {SymBr(s) : s \in {"SPACE", "SURE_SPACE", "EOL_SURE_SPACE", "HYPHEN",
                            "LINE_BREAK", "UNKNOWN"}}
    \cup {NumBr(n) : n \in 0..6}

\* s.text ?? '' : a symbol's text, absent or one non-blank character
SymbolTexts == {<<>>, <<"a">>}

\* what the three if-statements append after a symbol
BreakSeparator(br) ==
    (IF IsSym(br, "SPACE") \/ IsNum(br, 1) THEN <<" ">> ELSE <<>>)
    \o (IF IsSym(br, "EOL_SURE_SPACE") \/ IsNum(br, 3) THEN <<" ">> ELSE <<>>)
    \o (IF IsSym(br, "LINE_BREAK") \/ IsNum(br, 5) THEN <<"\n">> ELSE <<>>)

\* out.replace(/[ \t]+\n/g, '\n')
StripBeforeNewline(s) ==
    LET Removed(i) ==
            /\ s[i] \in HSpace
            /\ \E j \in (i + 1)..Len(s) :
                  /\ s[j] = "\n"
                  /\ \A k \in i..(j - 1) : s[k] \in HSpace
    IN SubseqAt(s, {i \in 1..Len(s) : ~Removed(i)}, 1)

FinishText(s) == TrimWs(StripBeforeNewline(s))

InitText ==
    /\ pcT = "loop"
    /\ out = <<>>
    /\ ptext = <<>>
    /\ nWords = 0
    /\ symbols = <<>>
    /\ lastSep = <<>>

\* for (const w of pg.words): the next word starts; nothing is appended
NextWord ==
    /\ pcT = "loop"
    /\ nWords < MaxWords
    /\ nWords' = nWords + 1
    /\ UNCHANGED <<pcT, out, ptext, symbols, lastSep, pc, pipeVars, renderVars, otherVars>>

\* for (const s of w.symbols): one symbol of the current word; symbols is
\* the list of the symbols visited so far
NextSymbol ==
    /\ pcT = "loop"
    /\ nWords > 0
    /\ Len(symbols) < MaxSyms
    /\ \E t \in SymbolTexts, br \in BreakCodes :
          /\ out' = out \o t \o BreakSeparator(br)
          /\ lastSep' = BreakSeparator(br)
          /\ symbols' = Append(symbols, [text |-> t, br |-> br])
    /\ UNCHANGED <<pcT, ptext, nWords, pc, pipeVars, renderVars, otherVars>>

\* return out.replace(/[ \t]+\n/g, '\n').trim()
ReturnText ==
    /\ pcT = "loop"
    /\ ptext' = FinishText(out)
    /\ pcT' = "done"
    /\ UNCHANGED <<out, nWords, symbols, lastSep, pc, pipeVars, renderVars, otherVars>>

----------------------------------------------------------------------------
(* overlay.ts: wrapLines *)

Metrics == {"prop", "wide", "fixed"}

\* ctx.measureText(str).width under the font size set in ctx.font: half an em
\* per character, a full em per character, or a width the font size does not
\* change
Measure(m, fs, str) ==
    CASE m = "prop" -> (Len(str) * fs) \div 2
      [] m = "wide" -> Len(str) * fs
      [] OTHER -> Len(str) * 6

\* text.replace(/\s+/g, ' ')
CollapseWs(s) ==
    LET kept == {i \in 1..Len(s) :
                    s[i] \notin WhiteSpace \/ i = 1 \/ s[i - 1] \notin WhiteSpace}
        t == [i \in 1..Len(s) |-> IF s[i] \in WhiteSpace THEN " " ELSE s[i]]
    IN SubseqAt(t, kept, 1)

\* str.split(' '): the pieces between the spaces, the empty ones included
RECURSIVE SplitLoop(_, _, _)
SplitLoop(s, i, cur) ==
    IF i > Len(s) THEN <<cur>>
    ELSE IF s[i] = " " THEN <<cur>> \o SplitLoop(s, i + 1, <<>>)
    ELSE SplitLoop(s, i + 1, Append(cur, s[i]))

SplitOnSpace(s) == SplitLoop(s, 1, <<>>)

NonEmpty(piece) == piece # <<>>

\* the words as text.split(/\s+/) alone gives them: no trim, no filter
WordsOfSplitOnly(text) == SplitOnSpace(CollapseWs(text))

\* (text ?? '').replace(/\s+/g, ' ').trim().split(' ').filter(Boolean)
WordsOf(text) == SelectSeq(SplitOnSpace(TrimWs(CollapseWs(text))), NonEmpty)

\* a wrap that measures the next word alone instead of the candidate line
RECURSIVE WrapLoopMeasuresWord(_, _, _, _, _, _, _)
WrapLoopMeasuresWord(m, fs, words, maxWidth, i, line, acc) ==
    IF i > Len(words)
    THEN IF line # <<>> THEN Append(acc, line) ELSE acc
    ELSE LET w == words[i]
             test == IF line # <<>> THEN line \o <<" ">> \o w ELSE w
         IN IF Measure(m, fs, w) > maxWidth /\ line # <<>>
            THEN WrapLoopMeasuresWord(m, fs, words, maxWidth, i + 1, w, Append(acc, line))
            ELSE WrapLoopMeasuresWord(m, fs, words, maxWidth, i + 1, test, acc)

\* the for loop of wrapLines over words[i..], and the final push
RECURSIVE WrapLoop(_, _, _, _, _, _, _)
WrapLoop(m, fs, words, maxWidth, i, line, acc) ==
    IF i > Len(words)
    THEN IF line # <<>> THEN Append(acc, line) ELSE acc
    ELSE LET w == words[i]
             test == IF line # <<>> THEN line \o <<" ">> \o w ELSE w
         IN IF Measure(m, fs, test) > maxWidth /\ line # <<>>
            THEN WrapLoop(m, fs, words, maxWidth, i + 1, w, Append(acc, line))
            ELSE WrapLoop(m, fs, words, maxWidth, i + 1, test, acc)

wrapLines(m, fs, text, maxWidth) ==
    WrapLoop(m, fs, WordsOf(text), maxWidth, 1, <<>>, <<>>)

----------------------------------------------------------------------------
(* overlay.ts: overlayTranslations *)

MIN_FONT == 10

BoxXs(box) == {box[i].x : i \in 1..Len(box)}
BoxYs(box) == {box[i].y : i \in 1..Len(box)}

\* a rectangle whose width and height are not floored at 1
RectOfNoFloor(box, image) ==
    LET x == Max2(0, MinOf(BoxXs(box)))
        y == Max2(0, MinOf(BoxYs(box)))
        w == Min2(image.width, MaxOf(BoxXs(box))) - x
        h == Min2(image.height, MaxOf(BoxYs(box))) - y
        pad == (Min2(w, h) * 8) \div 100
    IN [x |-> x, y |-> y, w |-> w, h |-> h, pad |-> pad,
        maxW |-> Max2(10, w - 2 * pad), maxH |-> Max2(10, h - 2 * pad)]

\* the axis-aligned rectangle of a region, its padding and drawable area
RectOf(box, image) ==
    LET x == Max2(0, MinOf(BoxXs(box)))
        y == Max2(0, MinOf(BoxYs(box)))
        w == Max2(1, Min2(image.width, MaxOf(BoxXs(box))) - x)
        h == Max2(1, Min2(image.height, MaxOf(BoxYs(box))) - y)
        \* Math.floor(Math.min(w, h) * 0.08)
        pad == (Min2(w, h) * 8) \div 100
    IN [x |-> x, y |-> y, w |-> w, h |-> h, pad |-> pad,
        maxW |-> Max2(10, w - 2 * pad), maxH |-> Max2(10, h - 2 * pad)]

\* Math.max(10, Math.floor(maxH * 0.75))
FirstFont(maxH) == Max2(MIN_FONT, (maxH * 3) \div 4)

\* Math.ceil(fontSize * 1.25)
LineHeightOf(fs) == (fs * 5 + 3) \div 4

\* Math.ceil in the place of Math.floor
ShrinkFontCeil(fs) == (fs * 9 + 9) \div 10

\* Math.floor(fontSize * 0.9)
ShrinkFont(fs) == (fs * 9) \div 10

\* an exit test that leaves the last line out of the needed height
FitExitLastLineFree(nLines, lh, maxH, fs) ==
    (nLines - 1) * lh <= maxH \/ fs <= MIN_FONT

\* the exit test of the font-fit loop
FitExit(nLines, lh, maxH, fs) == nLines * lh <= maxH \/ fs <= MIN_FONT

\* a stop test that forgets the height of the line
DrawStopAtBottom(top, r, lh) == top > r.y + r.h

\* the test of the draw loop that stops drawing
DrawStop(top, r, lh) == top > r.y + r.h - lh

NoRect == [x |-> 0, y |-> 0, w |-> 0, h |-> 0, pad |-> 0, maxW |-> 0, maxH |-> 0]

\* canvas.getContext('2d'): the drawing state of a new canvas (font
\* '10px sans-serif', black fill, alphabetic baseline)
NewContext == [font |-> 10, fillStyle |-> "black", textBaseline |-> "alphabetic"]

\* a font that is set for the first region only
SetFontOnce(c, fs) ==
    IF c.textBaseline = "top" THEN c
    ELSE [c EXCEPT !.font = fs, !.textBaseline = "top"]

\* ctx.font = `${fontSize}px sans-serif`; ctx.textBaseline = 'top'
SetFont(c, fs) == [c EXCEPT !.font = fs, !.textBaseline = "top"]

\* loadImage, createCanvas, drawImage; then the loop over the regions
StartOverlay ==
    /\ pc = "overlay"
    /\ ops' = <<>>
    /\ rendered' = <<>>
    /\ ctx' = NewContext
    /\ IF toDraw = <<>>
       THEN pc' = "done" /\ ri' = 0
       ELSE pc' = "rect" /\ ri' = 1
    /\ UNCHANGED <<otherVars, textVars, pipeVars, img, metric, rect, fontSize, startFont,
                   shrinks, lines, lineHeight, wrapFont, cy, li, drawn>>

\* the rectangle, the padding, the erase and the first font size of region ri
ComputeRect ==
    /\ pc = "rect"
    /\ LET r == RectOf(toDraw[ri].box, img)
           c == [ctx EXCEPT !.fillStyle = "white"]
       IN /\ rect' = r
          /\ ctx' = c
          /\ ops' = Append(ops, [op |-> "fillRect", region |-> ri,
                                 x |-> r.x, y |-> r.y, w |-> r.w, h |-> r.h,
                                 style |-> c.fillStyle])
          /\ fontSize' = FirstFont(r.maxH)
          /\ startFont' = FirstFont(r.maxH)
    /\ shrinks' = 0
    /\ lines' = <<>>
    /\ lineHeight' = 0
    /\ wrapFont' = 0
    /\ cy' = 0
    /\ li' = 0
    /\ drawn' = <<>>
    /\ pc' = "fit"
    /\ UNCHANGED <<otherVars, textVars, pipeVars, img, metric, ri, rendered>>

\* one pass of the font-fit loop that ends it (break)
FitBreak ==
    /\ pc = "fit"
    /\ LET c == SetFont(ctx, fontSize)
           lh == LineHeightOf(fontSize)
           ls == wrapLines(metric, c.font, toDraw[ri].translated, rect.maxW)
       IN /\ FitExit(Len(ls), lh, rect.maxH, fontSize)
          /\ lines' = ls
          /\ lineHeight' = lh
          /\ ctx' = [c EXCEPT !.fillStyle = "black"]
    /\ wrapFont' = fontSize
    /\ cy' = rect.y + rect.pad
    /\ li' = 1
    /\ pc' = "draw"
    /\ UNCHANGED <<otherVars, textVars, pipeVars, img, metric, ri, rect, fontSize,
                   startFont, shrinks, drawn, ops, rendered>>

\* one pass of the font-fit loop that shrinks the font and tries again
FitShrink ==
    /\ pc = "fit"
    /\ LET c == SetFont(ctx, fontSize)
           lh == LineHeightOf(fontSize)
           ls == wrapLines(metric, c.font, toDraw[ri].translated, rect.maxW)
       IN /\ ~FitExit(Len(ls), lh, rect.maxH, fontSize)
          /\ lines' = ls
          /\ lineHeight' = lh
          /\ ctx' = c
    /\ wrapFont' = fontSize
    /\ fontSize' = ShrinkFont(fontSize)
    /\ shrinks' = shrinks + 1
    /\ UNCHANGED <<otherVars, textVars, pc, pipeVars, img, metric, ri, rect, startFont,
                   cy, li, drawn, ops, rendered>>

\* one pass of the draw loop that draws line li
DrawLine ==
    /\ pc = "draw"
    /\ li <= Len(lines)
    /\ ~DrawStop(cy, rect, lineHeight)
    /\ ops' = Append(ops, [op |-> "fillText", region |-> ri, line |-> lines[li],
                           x |-> rect.x + rect.pad, y |-> cy,
                           w |-> Measure(metric, ctx.font, lines[li]),
                           h |-> ctx.font, font |-> ctx.font,
                           style |-> ctx.fillStyle])
    /\ drawn' = Append(drawn, [line |-> lines[li], top |-> cy])
    /\ cy' = cy + lineHeight
    /\ li' = li + 1
    /\ UNCHANGED <<otherVars, textVars, pc, pipeVars, img, metric, ri, rect, fontSize,
                   startFont, shrinks, lines, lineHeight, wrapFont, rendered, ctx>>

\* the draw loop ends (no line left, or break); the next region, or
\* canvas.toBuffer
EndRegion ==
    /\ pc = "draw"
    /\ li > Len(lines) \/ DrawStop(cy, rect, lineHeight)
    /\ rendered' = Append(rendered,
                          [rect |-> rect, fontSize |-> fontSize,
                           lineHeight |-> lineHeight, lines |-> lines,
                           drawn |-> drawn, shrinks |-> shrinks,
                           startFont |-> startFont])
    /\ IF ri < Len(toDraw)
       THEN pc' = "rect" /\ ri' = ri + 1
       ELSE pc' = "done" /\ ri' = ri
    /\ UNCHANGED <<otherVars, textVars, pipeVars, img, metric, rect, fontSize, startFont,
                   shrinks, lines, lineHeight, wrapFont, cy, li, drawn, ops, ctx>>

\* overlayTranslations(buf, regions) called once more on the same image with
\* the regions in another order; the first call's result is kept
RenderReordered ==
    /\ pc = "done"
    /\ pass = 1
    /\ \E reordered \in {[i \in 1..Len(toDraw) |-> toDraw[q[i]]] :
            q \in {f \in [1..Len(toDraw) -> 1..Len(toDraw)] :
                      \A i, j \in 1..Len(toDraw) : f[i] = f[j] => i = j}} :
          toDraw' = reordered
    /\ firstDraw' = toDraw
    /\ firstOps' = ops
    /\ firstRendered' = rendered
    /\ pass' = 2
    /\ pc' = "overlay"
    /\ UNCHANGED <<textVars, regions, presort, sent, translated, renderVars,
                   extractVars, clientVars, counterVars>>

----------------------------------------------------------------------------
(* app.ts: the region sort, the translation request and the pairing *)

Y_TOLERANCE == 6

topY(r) == MinOf(BoxYs(r.box))
leftX(r) == MinOf(BoxXs(r.box))

\* a comparator that forgets the tolerance: rows are told apart by any
\* difference of topY
compareRegionsNoTolerance(a, b) ==
    IF topY(a) # topY(b)
    THEN topY(a) - topY(b)
    ELSE leftX(a) - leftX(b)

\* the comparator handed to regions.sort
compareRegions(a, b) ==
    IF Abs(topY(a) - topY(b)) > Y_TOLERANCE
    THEN topY(a) - topY(b)
    ELSE leftX(a) - leftX(b)

\* Array.prototype.sort's requirement on its comparator: on the elements of
\* the list it orders them consistently (it is antisymmetric by its form)
ConsistentComparator(regs) ==
    \A i, j, k \in 1..Len(regs) :
        /\ (compareRegions(regs[i], regs[j]) < 0 /\ compareRegions(regs[j], regs[k]) < 0)
              => compareRegions(regs[i], regs[k]) < 0
        /\ (compareRegions(regs[i], regs[j]) = 0 /\ compareRegions(regs[j], regs[k]) = 0)
              => compareRegions(regs[i], regs[k]) = 0

\* r inserted behind the last element that does not come after it
InsertRegion(sorted, r) ==
    LET notAfter == {k \in 1..Len(sorted) : compareRegions(sorted[k], r) <= 0}
        j == IF notAfter = {} THEN 0 ELSE MaxOf(notAfter)
    IN SubSeq(sorted, 1, j) \o <<r>> \o SubSeq(sorted, j + 1, Len(sorted))

RECURSIVE InsertionSort(_, _)
InsertionSort(regs, n) ==
    IF n = 0 THEN <<>> ELSE InsertRegion(InsertionSort(regs, n - 1), regs[n])

Reorderings(regs) ==
    {[i \in 1..Len(regs) |-> regs[p[i]]] :
        p \in {q \in [1..Len(regs) -> 1..Len(regs)] :
                  \A i, j \in 1..Len(regs) : q[i] = q[j] => i = j}}

\* regions.sort(comparator): the stable sorted order when the comparator is
\* consistent; otherwise the order is left to the engine
SortOutcomes(regs) ==
    IF ConsistentComparator(regs)
    THEN {InsertionSort(regs, Len(regs))}
    ELSE Reorderings(regs)

\* a request built from the regions as extracted, before the sort
SourceTextsBeforeSort(regs) == [i \in 1..Len(regs) |-> presort[i].text]

\* regions.map(r => r.text)
SourceTexts(regs) == [i \in 1..Len(regs) |-> regs[i].text]

\* the translation service's rendering of one source string
Translation(t) == t \o <<" ", "e">>

\* translateBatch: the translations, index-aligned with the request; the
\* reply may hold fewer entries than the request
TranslateReplies(texts) ==
    {[i \in 1..n |-> Translation(texts[i])] : n \in 0..Len(texts)}

\* regions.map((r, i) => ({...r, translated: translated[i] ?? ''}))
PairTranslations(regs, tr) ==
    [i \in 1..Len(regs) |->
        [text |-> regs[i].text, box |-> regs[i].box,
         translated |-> IF i <= Len(tr) THEN tr[i] ELSE <<>>]]

SortRegions ==
    /\ pc = "sort"
    /\ \E sorted \in SortOutcomes(regions) : regions' = sorted
    /\ pc' = "translate"
    /\ UNCHANGED <<otherVars, textVars, presort, sent, translated, toDraw, renderVars>>

TranslateBatch ==
    /\ pc = "translate"
    /\ sent' = SourceTexts(regions)
    /\ \E reply \in TranslateReplies(SourceTexts(regions)) : translated' = reply
    /\ pc' = "pair"
    /\ UNCHANGED <<otherVars, textVars, regions, presort, toDraw, renderVars>>

BuildDrawPayload ==
    /\ pc = "pair"
    /\ toDraw' = PairTranslations(regions, translated)
    /\ pc' = "overlay"
    /\ UNCHANGED <<otherVars, textVars, regions, presort, sent, translated, renderVars>>

----------------------------------------------------------------------------
(* Inputs *)

ImageSizes == {[width |-> 40, height |-> 31]}

Quad(xa, ya, xb, yb) ==
    <<[x |-> xa, y |-> ya], [x |-> xb, y |-> ya],
      [x |-> xb, y |-> yb], [x |-> xa, y |-> yb]>>

\* paragraph boxes at three heights, within and beyond the tolerance
SortBoxes == {Quad(x, y, x + 20, y + 17) : x \in {0, 5}, y \in {0, 5, 10}}

\* the i-th extracted region's text: i letters
SourceText(i) == [j \in 1..i |-> "a"]

RegionLists ==
    UNION {{[i \in 1..n |-> [text |-> SourceText(i), box |-> boxes[i]]] :
               boxes \in [1..n -> SortBoxes]} : n \in 0..MaxRegions}

\* boxes inside, across and beyond the image's edges
GeoXs == {-5, 0, 20, 40, 45}
GeoYs == {-5, 0, 17, 31, 36}
GeoBoxes == {Quad(xa, ya, xb, yb) : xa \in GeoXs, xb \in GeoXs, ya \in GeoYs, yb \in GeoYs}

\* boxes of several heights and widths for the font fit
FitBoxes == {Quad(0, 0, 40, 17), Quad(0, 0, 20, 17), Quad(0, 0, 40, 31),
             Quad(0, 0, 10, 31), Quad(5, 5, 25, 6)}

Texts == SeqsUpTo({"a", " ", "\n"}, MaxText)

\* regions side by side, one below the other and across each other, with
\* texts that fit their box and a word wider than its box
ReorderInputs ==
    {[text |-> <<"a">>, box |-> Quad(0, 0, 20, 17), translated |-> <<"a", " ", "a">>],
     [text |-> <<"a">>, box |-> Quad(0, 0, 20, 17),
      translated |-> <<"a", "a", "a", "a", "a">>],
     [text |-> <<"a">>, box |-> Quad(20, 0, 40, 17), translated |-> <<"a", " ", "a">>],
     [text |-> <<"a">>, box |-> Quad(0, 17, 40, 31),
      translated |-> <<"a", " ", "a", " ", "a">>],
     [text |-> <<"a">>, box |-> Quad(10, 5, 30, 25), translated |-> <<"a">>],
     [text |-> <<"a">>, box |-> Quad(20, 0, 40, 31), translated |-> <<"a", " ", "a">>]}

ReorderLists == SeqsUpTo(ReorderInputs, MaxReordered)

RenderInputs ==
    {[text |-> <<"a">>, box |-> b, translated |-> t] :
        b \in GeoBoxes, t \in {<<>>, <<"a">>}}
    \cup {[text |-> <<"a">>, box |-> b, translated |-> t] :
        b \in FitBoxes, t \in Texts}

----------------------------------------------------------------------------
(* app.ts: the region extraction loop *)

\* a vertex of the annotation: null, or an object whose x and y may be absent
NullVertex == [nil |-> TRUE, hasX |-> FALSE, x |-> 0, hasY |-> FALSE, y |-> 0]
Vertex(hasX, x, hasY, y) ==
    [nil |-> FALSE, hasX |-> hasX, x |-> x, hasY |-> hasY, y |-> y]

\* a symbol, a word (symbols present or absent) and a paragraph (words,
\* boundingBox and its vertices present or absent) of the annotation
Symbol(t, br) == [text |-> t, br |-> br]
Word(syms) == [hasSymbols |-> TRUE, symbols |-> syms]
WordNoSymbols == [hasSymbols |-> FALSE, symbols |-> <<>>]
Paragraph(hasWords, words, hasBox, hasVertices, vertices) ==
    [hasWords |-> hasWords, words |-> words, hasBox |-> hasBox,
     hasVertices |-> hasVertices, vertices |-> vertices]

WordsA == <<Word(<<Symbol(<<"a">>, Unset)>>)>>
WordsBlank == <<Word(<<Symbol(<<>>, SymBr("SPACE")), Symbol(<<>>, NumBr(5))>>)>>
WordsAB == <<Word(<<Symbol(<<"a">>, NumBr(1))>>), WordNoSymbols,
             Word(<<Symbol(<<"b">>, SymBr("LINE_BREAK"))>>)>>

Quad4 == <<Vertex(TRUE, 0, TRUE, 0), Vertex(TRUE, 20, TRUE, 0),
           Vertex(TRUE, 20, TRUE, 17), Vertex(TRUE, 0, TRUE, 17)>>
PentaGaps == <<NullVertex, Vertex(TRUE, 25, FALSE, 0),
               Vertex(TRUE, 25, TRUE, 27), Vertex(FALSE, 0, TRUE, 27),
               Vertex(TRUE, 10, TRUE, 30)>>
Triangle == <<Vertex(TRUE, 0, TRUE, 0), Vertex(TRUE, 20, TRUE, 0),
              Vertex(TRUE, 20, TRUE, 17)>>

\* paragraphs the OCR service may return: well formed, with absent parts,
\* with blank text, with too few vertices
Paragraphs ==
    {Paragraph(TRUE, WordsA, TRUE, TRUE, Quad4),
     Paragraph(TRUE, WordsAB, TRUE, TRUE, PentaGaps),
     Paragraph(TRUE, WordsBlank, TRUE, TRUE, Quad4),
     Paragraph(TRUE, WordsA, TRUE, TRUE, Triangle),
     Paragraph(FALSE, <<>>, FALSE, FALSE, <<>>),
     Paragraph(TRUE, WordsA, TRUE, FALSE, <<>>)}

\* the lengths of the annotation's lists: pages (anno?.pages ?? []), the
\* blocks of a page, the paragraphs of a block; 0 also for an absent list
ListLengths == {0, 1, 2}

\* ({ x: v?.x ?? 0, y: v?.y ?? 0 })
PointOf(v) ==
    [x |-> IF v.nil \/ ~v.hasX THEN 0 ELSE v.x,
     y |-> IF v.nil \/ ~v.hasY THEN 0 ELSE v.y]

\* (pg.boundingBox?.vertices ?? []).map(...)
BoxOf(pg) ==
    IF pg.hasBox /\ pg.hasVertices
    THEN [i \in 1..Len(pg.vertices) |-> PointOf(pg.vertices[i])]
    ELSE <<>>

\* the inner loop of getParagraphText over the first n symbols of a word
RECURSIVE SymbolsText(_, _)
SymbolsText(syms, n) ==
    IF n = 0 THEN <<>>
    ELSE SymbolsText(syms, n - 1) \o syms[n].text \o BreakSeparator(syms[n].br)

\* the outer loop over the first n words (w.symbols ?? [])
RECURSIVE WordsText(_, _)
WordsText(words, n) ==
    IF n = 0 THEN <<>>
    ELSE WordsText(words, n - 1)
         \o (IF words[n].hasSymbols
             THEN SymbolsText(words[n].symbols, Len(words[n].symbols))
             ELSE <<>>)

\* getParagraphText(pg), with pg.words ?? []
getParagraphText(pg) ==
    FinishText(IF pg.hasWords THEN WordsText(pg.words, Len(pg.words)) ELSE <<>>)

\* a filter that keeps a paragraph when either test passes
KeepRegionEither(text, box) == text # <<>> \/ Len(box) >= 4

\* if (text && box.length >= 4)
KeepRegion(text, box) == text # <<>> /\ Len(box) >= 4

\* for (const p of pages): the next page and its blocks (p.blocks ?? [],
\* no block when blocks is absent), or the end of the extraction
NextPage ==
    /\ pc = "pages"
    /\ IF pI < nPages
       THEN /\ pI' = pI + 1
            /\ \E n \in ListLengths : nBlocks' = n
            /\ bI' = 0
            /\ pc' = "blocks"
            /\ UNCHANGED presort
       ELSE /\ pc' = "sort"
            /\ presort' = regions
            /\ UNCHANGED <<pI, nBlocks, bI>>
    /\ UNCHANGED <<textVars, regions, sent, translated, toDraw, renderVars,
                   orderVars, nPages, nParas, gI, visited, clientVars,
                   counterVars>>

\* for (const b of (p.blocks ?? [])): the next block and its paragraphs
\* (b.paragraphs ?? []), or the end of the page
NextBlock ==
    /\ pc = "blocks"
    /\ IF bI < nBlocks
       THEN /\ bI' = bI + 1
            /\ \E n \in ListLengths :
                  /\ Len(visited) + n <= MaxParagraphs
                  /\ nParas' = n
            /\ gI' = 0
            /\ pc' = "paragraphs"
       ELSE /\ pc' = "pages"
            /\ UNCHANGED <<bI, nParas, gI>>
    /\ UNCHANGED <<textVars, pipeVars, renderVars, orderVars, nPages, nBlocks,
                   pI, visited, clientVars, counterVars>>

\* for (const pg of (b.paragraphs ?? [])): the text and the box of the next
\* paragraph, pushed when it passes the filter; or the end of the block
ExtractParagraph ==
    /\ pc = "paragraphs"
    /\ IF gI < nParas
       THEN /\ gI' = gI + 1
            /\ \E pg \in Paragraphs :
                  LET text == getParagraphText(pg)
                      box == BoxOf(pg)
                  IN /\ regions' = IF KeepRegion(text, box)
                                   THEN Append(regions, [text |-> text, box |-> box])
                                   ELSE regions
                     /\ visited' = Append(visited, [page |-> pI, block |-> bI,
                                                    para |-> gI + 1, pg |-> pg])
            /\ UNCHANGED pc
       ELSE /\ pc' = "blocks"
            /\ UNCHANGED <<gI, regions, visited>>
    /\ UNCHANGED <<textVars, presort, sent, translated, toDraw, renderVars,
                   orderVars, nPages, nBlocks, nParas, pI, bI, clientVars,
                   counterVars>>

----------------------------------------------------------------------------
(* main.js: the browser client *)

\* what a file picker or a drop hands over: no file, a file that is not an
\* image, or one of the image files (0 stands for null and for '')
PickedFiles ==
    {[kind |-> "none", id |-> 0], [kind |-> "other", id |-> 0]}
    \cup {[kind |-> "image", id |-> i] : i \in 1..MaxFiles}

showError(msg) == errorText' = msg

setLoading(active) ==
    IF active
    THEN progressHidden' = FALSE /\ btnDisabled' = TRUE
    ELSE progressHidden' = TRUE /\ btnDisabled' = (currentFile = 0)

setFile(file) ==
    /\ currentFile' = file
    /\ showError("")
    /\ outImg' = 0
    /\ origImg' = file
    /\ btnDisabled' = (file = 0)

\* the requests without the k-th, which has settled
Settled(k) == SubseqAt(requests, (1..Len(requests)) \ {k}, 1)

\* fileInput 'change'
FileChange ==
    /\ pc = "client"
    /\ \E f \in PickedFiles :
          IF f.kind = "none"
          THEN UNCHANGED <<currentFile, btnDisabled, origImg, outImg, errorText>>
          ELSE IF f.kind = "other"
          THEN /\ showError("Please choose an image file.")
               /\ UNCHANGED <<currentFile, btnDisabled, origImg, outImg>>
          ELSE setFile(f.id)
    /\ UNCHANGED <<textVars, pc, pipeVars, renderVars, orderVars, extractVars,
                   progressHidden, requests, started, counterVars>>

\* dropZone 'drop'
FileDrop ==
    /\ pc = "client"
    /\ \E f \in PickedFiles :
          IF f.kind = "image"
          THEN setFile(f.id)
          ELSE /\ showError("Please drop a valid image file.")
               /\ UNCHANGED <<currentFile, btnDisabled, origImg, outImg>>
    /\ UNCHANGED <<textVars, pc, pipeVars, renderVars, orderVars, extractVars,
                   progressHidden, requests, started, counterVars>>

\* translateBtn 'click' (a disabled button dispatches no click), up to the
\* await of fetch
ClickTranslate ==
    /\ pc = "client"
    /\ ~btnDisabled
    /\ IF currentFile = 0
       THEN /\ showError("Select an image first.")
            /\ UNCHANGED <<btnDisabled, progressHidden, requests, started>>
       ELSE /\ started < MaxRequests
            /\ setLoading(TRUE)
            /\ requests' = Append(requests, [id |-> started + 1,
                                              file |-> currentFile,
                                              at |-> "fetch"])
            /\ started' = started + 1
            /\ UNCHANGED errorText
    /\ UNCHANGED <<textVars, pc, pipeVars, renderVars, orderVars, extractVars,
                   currentFile, origImg, outImg, counterVars>>

\* the fetch of a request settles: a response that is ok, one that is not,
\* or a rejection (catch and finally run)
FetchSettles ==
    /\ pc = "client"
    /\ \E k \in 1..Len(requests) :
          /\ requests[k].at = "fetch"
          /\ \E outcome \in {"ok", "not ok", "rejected"} :
                IF outcome = "rejected"
                THEN /\ showError("Translation failed.")
                     /\ setLoading(FALSE)
                     /\ requests' = Settled(k)
                ELSE /\ requests' = [requests EXCEPT
                                        ![k].at = IF outcome = "ok" THEN "blob"
                                                  ELSE "text"]
                     /\ UNCHANGED <<errorText, progressHidden, btnDisabled>>
    /\ UNCHANGED <<textVars, pc, pipeVars, renderVars, orderVars, extractVars,
                   currentFile, origImg, outImg, started, counterVars>>

\* res.blob() or res.text() of a request settles; try, catch and finally
\* run to the end
BodySettles ==
    /\ pc = "client"
    /\ \E k \in 1..Len(requests) :
          /\ requests[k].at \in {"blob", "text"}
          /\ \E resolved \in BOOLEAN :
                IF resolved /\ requests[k].at = "blob"
                THEN /\ outImg' = requests[k].file
                     /\ UNCHANGED errorText
                ELSE /\ showError(IF resolved THEN "Server error"
                                  ELSE "Translation failed.")
                     /\ UNCHANGED outImg
          /\ setLoading(FALSE)
          /\ requests' = Settled(k)
    /\ UNCHANGED <<textVars, pc, pipeVars, renderVars, orderVars, extractVars,
                   currentFile, origImg, started, counterVars>>

----------------------------------------------------------------------------
(* counter.js: the success counter and its progress bar *)

\* the inline width of the progress bar: not set, or a percentage
NoWidth == [set |-> FALSE, pct |-> 0]
Percent(n) == [set |-> TRUE, pct |-> n]

\* getCount's result and the number of increments before the call
NotRead == [value |-> 0, calls |-> 0]

\* JavaScript values: undefined, a number, NaN
JsUndefined == [kind |-> "undefined", num |-> 0]
JsNumber(n) == [kind |-> "number", num |-> n]
JsNaN == [kind |-> "NaN", num |-> 0]

\* Math.min(a, b): NaN when an argument does not convert to a number
\* (undefined converts to NaN)
MathMin(a, b) ==
    IF a.kind = "number" /\ b.kind = "number"
    THEN JsNumber(Min2(a.num, b.num))
    ELSE JsNaN

\* progressBar.style.width = `${v}%`: 'NaN%' is not a length, and a style
\* declaration that does not parse leaves the property as it was
AssignWidth(old, v) == IF v.kind = "number" THEN Percent(v.num) ELSE old

\* updateProgressBar(count): the parameter hides the module's count
updateProgressBar(arg) ==
    barWidth' = AssignWidth(barWidth, MathMin(arg, JsNumber(100)))

\* count += 5; updateProgressBar() -- called with no argument, so the
\* parameter is undefined
incrementCount ==
    /\ pc = "counter"
    /\ calls < MaxCalls
    /\ count' = count + 5
    /\ updateProgressBar(JsUndefined)
    /\ calls' = calls + 1
    /\ UNCHANGED <<textVars, pc, pipeVars, renderVars, orderVars, extractVars,
                   clientVars, got>>

\* return count
getCount ==
    /\ pc = "counter"
    /\ got' = [value |-> count, calls |-> calls]
    /\ UNCHANGED <<textVars, pc, pipeVars, renderVars, orderVars, extractVars,
                   clientVars, count, barWidth, calls>>

----------------------------------------------------------------------------
(* Specifications *)

IdleText ==
    /\ pcT = "idle"
    /\ out = <<>>
    /\ ptext = <<>>
    /\ nWords = 0
    /\ symbols = <<>>
    /\ lastSep = <<>>

IdlePipe ==
    /\ regions = <<>>
    /\ presort = <<>>
    /\ sent = <<>>
    /\ translated = <<>>

IdleRender ==
    /\ ri = 0
    /\ rect = NoRect
    /\ fontSize = 0
    /\ startFont = 0
    /\ shrinks = 0
    /\ lines = <<>>
    /\ lineHeight = 0
    /\ wrapFont = 0
    /\ cy = 0
    /\ li = 0
    /\ drawn = <<>>
    /\ ops = <<>>
    /\ rendered = <<>>
    /\ ctx = NewContext

IdleOrder ==
    /\ pass = 1
    /\ firstDraw = <<>>
    /\ firstOps = <<>>
    /\ firstRendered = <<>>

IdleExtract ==
    /\ nPages = 0
    /\ nBlocks = 0
    /\ nParas = 0
    /\ pI = 0
    /\ bI = 0
    /\ gI = 0
    /\ visited = <<>>

IdleClient ==
    /\ currentFile = 0
    /\ btnDisabled = TRUE
    /\ origImg = 0
    /\ outImg = 0
    /\ progressHidden = TRUE
    /\ errorText = ""
    /\ requests = <<>>
    /\ started = 0

IdleCounter ==
    /\ count = 0
    /\ barWidth = NoWidth
    /\ got = NotRead
    /\ calls = 0

\* the request handler, from the extracted regions to the rendered image
Init ==
    /\ IdleText
    /\ pc = "sort"
    /\ regions \in RegionLists
    /\ presort = regions
    /\ sent = <<>>
    /\ translated = <<>>
    /\ toDraw = <<>>
    /\ img \in ImageSizes
    /\ metric = "prop"
    /\ IdleRender
    /\ IdleOrder
    /\ IdleExtract
    /\ IdleClient
    /\ IdleCounter

Next ==
    \/ SortRegions
    \/ TranslateBatch
    \/ BuildDrawPayload
    \/ StartOverlay
    \/ ComputeRect
    \/ FitBreak
    \/ FitShrink
    \/ DrawLine
    \/ EndRegion

Spec == Init /\ [][Next]_vars

\* overlayTranslations on one region
InitRender ==
    /\ IdleText
    /\ pc = "overlay"
    /\ IdlePipe
    /\ \E r \in RenderInputs : toDraw = <<r>>
    /\ img \in ImageSizes
    /\ metric \in Metrics
    /\ IdleRender
    /\ IdleOrder
    /\ IdleExtract
    /\ IdleClient
    /\ IdleCounter

NextRender ==
    \/ StartOverlay
    \/ ComputeRect
    \/ FitBreak
    \/ FitShrink
    \/ DrawLine
    \/ EndRegion

SpecRender == InitRender /\ [][NextRender]_vars

\* getParagraphText on one paragraph
InitParagraph ==
    /\ InitText
    /\ pc = "idle"
    /\ IdlePipe
    /\ toDraw = <<>>
    /\ img \in ImageSizes
    /\ metric = "prop"
    /\ IdleRender
    /\ IdleOrder
    /\ IdleExtract
    /\ IdleClient
    /\ IdleCounter

NextParagraph ==
    \/ NextWord
    \/ NextSymbol
    \/ ReturnText

SpecParagraph == InitParagraph /\ [][NextParagraph]_vars

\* the handler from the annotation's pages (anno?.pages ?? []) to the draw
\* payload
InitExtract ==
    /\ IdleText
    /\ pc = "pages"
    /\ IdlePipe
    /\ toDraw = <<>>
    /\ img \in ImageSizes
    /\ metric = "prop"
    /\ IdleRender
    /\ IdleOrder
    /\ nPages \in ListLengths
    /\ nBlocks = 0
    /\ nParas = 0
    /\ pI = 0
    /\ bI = 0
    /\ gI = 0
    /\ visited = <<>>
    /\ IdleClient
    /\ IdleCounter

NextExtract ==
    \/ NextPage
    \/ NextBlock
    \/ ExtractParagraph
    \/ SortRegions
    \/ TranslateBatch
    \/ BuildDrawPayload

SpecExtract == InitExtract /\ [][NextExtract]_vars

\* overlayTranslations on a list of regions, then on the list reordered
InitReorder ==
    /\ IdleText
    /\ pc = "overlay"
    /\ IdlePipe
    /\ toDraw \in ReorderLists
    /\ img \in ImageSizes
    /\ metric \in Metrics
    /\ IdleRender
    /\ IdleOrder
    /\ IdleExtract
    /\ IdleClient
    /\ IdleCounter

NextReorder ==
    \/ StartOverlay
    \/ ComputeRect
    \/ FitBreak
    \/ FitShrink
    \/ DrawLine
    \/ EndRegion
    \/ RenderReordered

SpecReorder == InitReorder /\ [][NextReorder]_vars

\* the page as loaded: no file, no image shown, no request; the button as
\* the page's markup leaves it
InitClient ==
    /\ IdleText
    /\ pc = "client"
    /\ IdlePipe
    /\ toDraw = <<>>
    /\ img \in ImageSizes
    /\ metric = "prop"
    /\ IdleRender
    /\ IdleOrder
    /\ IdleExtract
    /\ currentFile = 0
    /\ btnDisabled \in BOOLEAN
    /\ origImg = 0
    /\ outImg = 0
    /\ progressHidden = TRUE
    /\ errorText = ""
    /\ requests = <<>>
    /\ started = 0
    /\ IdleCounter

NextClient ==
    \/ FileChange
    \/ FileDrop
    \/ ClickTranslate
    \/ FetchSettles
    \/ BodySettles

SpecClient == InitClient /\ [][NextClient]_vars

\* the counter module as loaded: count = 0; the bar's width as the page's
\* markup leaves it, not set or 0%
InitCounter ==
    /\ IdleText
    /\ pc = "counter"
    /\ IdlePipe
    /\ toDraw = <<>>
    /\ img \in ImageSizes
    /\ metric = "prop"
    /\ IdleRender
    /\ IdleOrder
    /\ IdleExtract
    /\ IdleClient
    /\ count = 0
    /\ barWidth \in {NoWidth, Percent(0)}
    /\ got = NotRead
    /\ calls = 0

NextCounter ==
    \/ incrementCount
    \/ getCount

SpecCounter == InitCounter /\ [][NextCounter]_vars

----------------------------------------------------------------------------
(* Paragraph reconstruction: C1, C2 *)

\* the break action the mapping table of the specification gives a code
TableAction(br) ==
    IF IsSym(br, "SPACE") \/ IsNum(br, 1) THEN "SPACE"
    ELSE IF IsSym(br, "SURE_SPACE") \/ IsNum(br, 2) THEN "SPACE"
    ELSE IF IsSym(br, "EOL_SURE_SPACE") \/ IsNum(br, 3) THEN "SPACE"
    ELSE IF IsSym(br, "LINE_BREAK") \/ IsNum(br, 5) THEN "NEWLINE"
    ELSE "NONE"

TableSeparator(br) ==
    CASE TableAction(br) = "SPACE" -> <<" ">>
      [] TableAction(br) = "NEWLINE" -> <<"\n">>
      [] OTHER -> <<>>

Resolving(action) ==
    Cardinality({i \in 1..Len(symbols) : TableAction(symbols[i].br) = action})

\* C1: the text getParagraphText returns holds exactly one space per symbol
\* whose break code resolves to SPACE, exactly one newline per symbol whose
\* code resolves to NEWLINE, and no separator for the symbols resolving to
\* NONE (the symbols' own texts hold no blank).
C1_OneSeparatorPerBreak ==
    pcT = "done" =>
        /\ Count(ptext, " ") = Resolving("SPACE")
        /\ Count(ptext, "\n") = Resolving("NEWLINE")
        /\ Count(ptext, "\t") = 0

\* C2: what is appended after a symbol is what the mapping table gives its
\* break code, in the symbolic and in the numeric form, and it is at most one
\* separator.
C2_TableResolution ==
    symbols # <<>> =>
        /\ lastSep = TableSeparator(symbols[Len(symbols)].br)
        /\ Len(lastSep) <= 1

----------------------------------------------------------------------------
(* Region sort and positional pairing: C3, C4 *)

\* the order of the claim: a comes before b
ClaimBefore(a, b) ==
    IF Abs(topY(a) - topY(b)) > 6 THEN topY(a) < topY(b) ELSE leftX(a) < leftX(b)

ClaimTie(a, b) == ~ClaimBefore(a, b) /\ ~ClaimBefore(b, a)

\* the place a region had before the sort (the texts of a list are distinct)
PlaceBefore(r) == CHOOSE i \in 1..Len(presort) : presort[i] = r

\* every pair of the sorted list, adjacent or not, is in the claim's order,
\* and regions that compare equal keep their pre-sort order
AllPairsOrdered ==
    \A i, j \in 1..Len(regions) :
        i < j =>
            /\ ~ClaimBefore(regions[j], regions[i])
            /\ ClaimTie(regions[i], regions[j])
                  => PlaceBefore(regions[i]) < PlaceBefore(regions[j])

\* the claim's order is an order on the list: before and tie are transitive
ClaimOrderTransitive ==
    \A i, j, k \in 1..Len(presort) :
        /\ (ClaimBefore(presort[i], presort[j]) /\ ClaimBefore(presort[j], presort[k]))
              => ClaimBefore(presort[i], presort[k])
        /\ (ClaimTie(presort[i], presort[j]) /\ ClaimTie(presort[j], presort[k]))
              => ClaimTie(presort[i], presort[k])

IsReordering ==
    /\ Len(regions) = Len(presort)
    /\ \A i \in 1..Len(presort) :
          Cardinality({j \in 1..Len(regions) : regions[j] = presort[i]}) = 1

C4_PairingAligned ==
    /\ pc = "overlay" =>
          /\ Len(toDraw) = Len(regions)
          /\ Len(sent) = Len(regions)
          /\ \A i \in 1..Len(toDraw) :
                /\ toDraw[i].text = regions[i].text
                /\ toDraw[i].box = regions[i].box
                /\ sent[i] = regions[i].text
                /\ i <= Len(translated) =>
                      /\ toDraw[i].translated = translated[i]
                      /\ toDraw[i].translated = Translation(toDraw[i].text)
                /\ i > Len(translated) => toDraw[i].translated = <<>>
    /\ pc = "done" =>
          /\ Len(rendered) = Len(toDraw)
          /\ \A k \in 1..Len(rendered) :
                k > Len(translated) =>
                    /\ toDraw[k].translated = <<>>
                    /\ rendered[k].lines = <<>>
                    /\ rendered[k].drawn = <<>>
                    /\ \E n \in 1..Len(ops) :
                          /\ ops[n].op = "fillRect"
                          /\ ops[n].region = k
                          /\ ops[n].w >= 1
                          /\ ops[n].h >= 1
                    /\ \A n \in 1..Len(ops) :
                          ops[n].region = k => ops[n].op = "fillRect"

\* three regions that the sort reordered, a reply of two translations, all
\* three rendered
C4_Witness ==
    /\ pc = "done"
    /\ Len(toDraw) = 3
    /\ Len(translated) = 2
    /\ Len(rendered) = 3
    /\ regions # presort
    /\ rendered[1].drawn # <<>>

----------------------------------------------------------------------------
(* Font fit: C5, C6 *)

RECURSIVE Pow(_, _)
Pow(b, k) == IF k = 0 THEN 1 ELSE b * Pow(b, k - 1)

\* ceil(log(s / 10) / log(1 / 0.9)): the least K with s * 0.9^K <= 10
RECURSIVE LeastShrinks(_, _)
LeastShrinks(s, K) ==
    IF s * Pow(9, K) <= 10 * Pow(10, K) THEN K ELSE LeastShrinks(s, K + 1)

IterBound(s) == LeastShrinks(s, 0)

\* C5: every shrink-and-retry step of the font-fit loop makes fontSize
\* strictly smaller, and a region takes at most
\* ceil(log(startFont / 10) / log(1 / 0.9)) such steps, so the loop ends.
C5_FontFitBounded ==
    [][(pc = "fit" /\ shrinks' # shrinks /\ pc' = "fit") =>
          /\ shrinks' = shrinks + 1
          /\ fontSize' < fontSize
          /\ shrinks' <= IterBound(startFont)]_vars

\* the loop has shrunk the font five times or more and has ended
C5_Witness == pc = "draw" /\ shrinks >= 5 /\ startFont > MIN_FONT

\* C6: the font size a region's text is wrapped and drawn with, fontSize at
\* the exit of the font-fit loop, is at least MIN_FONT = 10.
C6_FontAtLeastMin == pc = "draw" => fontSize >= 10

----------------------------------------------------------------------------
(* Word wrap: C7, C8 *)

Wrapped == pc \in {"fit", "draw"} /\ wrapFont > 0

LineSet == {lines[i] : i \in 1..Len(lines)}

WidthOf(str) == Measure(metric, wrapFont, str)

OneWord(line) == line # <<>> /\ Count(line, " ") = 0

\* C7: every line wrapLines returns measures at most maxW, except a line
\* that is one word wider than maxW.
C7_LinesFit ==
    Wrapped =>
        \A line \in LineSet :
            \/ WidthOf(line) <= rect.maxW
            \/ OneWord(line) /\ WidthOf(line) > rect.maxW

\* two lines or more, one of them of several words
C7_Witness ==
    /\ Wrapped
    /\ Len(lines) >= 2
    /\ \E line \in LineSet : ~OneWord(line) /\ WidthOf(line) <= rect.maxW

\* the text with every run of blanks between two words made one space, and
\* the blanks before the first and after the last word dropped
Collapsed(t) ==
    LET isWord(i) == t[i] \notin WhiteSpace
        kept == {i \in 1..Len(t) :
                    \/ isWord(i)
                    \/ /\ i > 1
                       /\ isWord(i - 1)
                       /\ \E j \in (i + 1)..Len(t) : isWord(j)}
    IN SubseqAt([i \in 1..Len(t) |-> IF isWord(i) THEN t[i] ELSE " "], kept, 1)

RECURSIVE JoinLines(_, _)
JoinLines(ls, n) ==
    IF n = 0 THEN <<>>
    ELSE IF n = 1 THEN ls[1]
    ELSE JoinLines(ls, n - 1) \o <<" ">> \o ls[n]

\* a line is whole words with one space between two of them
WholeWords(line) ==
    /\ line # <<>>
    /\ line[1] # " "
    /\ line[Len(line)] # " "
    /\ \A i \in 1..(Len(line) - 1) : ~(line[i] = " " /\ line[i + 1] = " ")
    /\ \A i \in 1..Len(line) : line[i] \notin {"\t", "\n"}

\* the words of a line, each a maximal run without a space
LineWords(line) ==
    LET spans == {<<a, b>> \in (1..Len(line)) \X (1..Len(line)) :
                     /\ a <= b
                     /\ \A i \in a..b : line[i] # " "
                     /\ a = 1 \/ line[a - 1] = " "
                     /\ b = Len(line) \/ line[b + 1] = " "}
    IN {SubSeq(line, sp[1], sp[2]) : sp \in spans}

\* C8: the lines joined with single spaces are the text with its runs of
\* blanks collapsed and trimmed; every line is whole words; a word wider
\* than maxW is alone on its line; a blank text gives no line and no line is
\* empty.
C8_WordsKept ==
    Wrapped =>
        LET t == toDraw[ri].translated
        IN /\ JoinLines(lines, Len(lines)) = Collapsed(t)
           /\ \A line \in LineSet : WholeWords(line)
           /\ \A line \in LineSet :
                 \A w \in LineWords(line) :
                     WidthOf(w) > rect.maxW => line = w
           /\ (\A i \in 1..Len(t) : t[i] \in WhiteSpace) => lines = <<>>

\* a text with blanks to drop, wrapped to two lines or more
C8_Witness ==
    /\ Wrapped
    /\ Len(lines) >= 2
    /\ toDraw[ri].translated[1] \in WhiteSpace
    /\ Len(toDraw[ri].translated) > Len(JoinLines(lines, Len(lines))) + 1

----------------------------------------------------------------------------
(* Rectangle and drawing: C9, C10 *)

Clamp(v, lo, hi) == IF v < lo THEN lo ELSE IF v > hi THEN hi ELSE v

HasRect == pc \in {"fit", "draw"}

PolyMinX == MinOf(BoxXs(toDraw[ri].box))
PolyMaxX == MaxOf(BoxXs(toDraw[ri].box))
PolyMinY == MinOf(BoxYs(toDraw[ri].box))
PolyMaxY == MaxOf(BoxYs(toDraw[ri].box))

WidthAsClaimed ==
    Max2(1, Clamp(PolyMaxX, 0, img.width) - Clamp(PolyMinX, 0, img.width))
HeightAsClaimed ==
    Max2(1, Clamp(PolyMaxY, 0, img.height) - Clamp(PolyMinY, 0, img.height))

\* C9 as claimed: x and y are the polygon's least x and y clamped to
\* [0, imgW] and [0, imgH], and w and h are the clamped greatest x and y
\* minus x and y, at least 1, for every polygon.
C9_ClampedBothWays ==
    HasRect =>
        /\ rect.x = Clamp(PolyMinX, 0, img.width)
        /\ rect.y = Clamp(PolyMinY, 0, img.height)
        /\ rect.w = WidthAsClaimed
        /\ rect.h = HeightAsClaimed

\* C9 as amended: x and y are bounded below by 0 only, x = max(0, least x)
\* and y = max(0, least y), which is the clamped value unless the polygon
\* lies wholly beyond the right or the bottom edge; w and h are as claimed.
C9_ClampedBelowOnly ==
    HasRect =>
        /\ rect.x = (IF PolyMinX < 0 THEN 0 ELSE PolyMinX)
        /\ rect.y = (IF PolyMinY < 0 THEN 0 ELSE PolyMinY)
        /\ PolyMinX <= img.width => rect.x = Clamp(PolyMinX, 0, img.width)
        /\ PolyMinY <= img.height => rect.y = Clamp(PolyMinY, 0, img.height)
        /\ rect.w = WidthAsClaimed
        /\ rect.h = HeightAsClaimed

\* a polygon wholly beyond the right edge and across the top edge
C9_Witness ==
    /\ HasRect
    /\ PolyMinX > img.width
    /\ rect.x = PolyMinX
    /\ rect.w = 1
    /\ PolyMinY < 0
    /\ rect.y = 0
    /\ rect.h > 1

\* the lines drawn are the first lines of the wrap, each at its place, each
\* having passed the test, each within the rectangle's height
DrawnPrefix(r, lh, ls, dr) ==
    /\ Len(dr) <= Len(ls)
    /\ \A i \in 1..Len(dr) :
          /\ dr[i].line = ls[i]
          /\ dr[i].top = r.y + r.pad + (i - 1) * lh
          /\ dr[i].top <= r.y + r.h - lh
          /\ r.y <= dr[i].top
          /\ dr[i].top + lh <= r.y + r.h

\* C10: the lines drawn for a region are a prefix of its wrapped lines; line
\* i is drawn only if y + pad + i * lineHeight <= y + h - lineHeight, the
\* first line that fails the test ends the drawing, and every drawn line
\* lies within [y, y + h]; a region whose text does not fit is rendered
\* like any other.
C10_DrawTruncates ==
    /\ pc = "draw" => DrawnPrefix(rect, lineHeight, lines, drawn)
    /\ \A k \in 1..Len(rendered) :
          LET d == rendered[k]
          IN /\ DrawnPrefix(d.rect, d.lineHeight, d.lines, d.drawn)
             /\ Len(d.drawn) < Len(d.lines) =>
                   d.rect.y + d.rect.pad + Len(d.drawn) * d.lineHeight
                       > d.rect.y + d.rect.h - d.lineHeight
    /\ pc = "done" => Len(rendered) = Len(toDraw)

\* a region rendered with its first line drawn and a later line dropped
C10_Witness ==
    /\ pc = "done"
    /\ Len(rendered) = 1
    /\ rendered[1].drawn # <<>>
    /\ Len(rendered[1].drawn) < Len(rendered[1].lines)

----------------------------------------------------------------------------
(* Region extraction: C11 *)

\* the number of vertices the annotation gives a paragraph
VertexCount(pg) == IF pg.hasBox /\ pg.hasVertices THEN Len(pg.vertices) ELSE 0

\* a vertex with each missing coordinate replaced by 0
ZeroFilled(v) ==
    [x |-> IF ~v.nil /\ v.hasX THEN v.x ELSE 0,
     y |-> IF ~v.nil /\ v.hasY THEN v.y ELSE 0]

\* the paragraph is to survive: its reconstructed text is not blank and its
\* polygon has 4 points or more
Survives(v) ==
    /\ TrimWs(getParagraphText(v.pg)) # <<>>
    /\ VertexCount(v.pg) >= 4

\* the region a surviving paragraph is to give
RegionAsClaimed(v) ==
    [text |-> getParagraphText(v.pg),
     box |-> [i \in 1..VertexCount(v.pg) |-> ZeroFilled(v.pg.vertices[i])]]

Survivors == SelectSeq(visited, Survives)

\* pages, then blocks, then paragraphs: v comes before w in pre-order
PreOrderBefore(v, w) ==
    \/ v.page < w.page
    \/ v.page = w.page /\ v.block < w.block
    \/ v.page = w.page /\ v.block = w.block /\ v.para < w.para

WellFormedRegion(r) ==
    /\ r.text # <<>>
    /\ TrimWs(r.text) = r.text
    /\ Len(r.box) >= 4

\* C11: the regions collected are the surviving paragraphs (non-blank
\* reconstructed text and a polygon of 4 points or more), all of them and no
\* other, in the pre-order pages, blocks, paragraphs of the annotation, each
\* with a missing vertex coordinate replaced by 0; every paragraph is
\* visited whatever its geometry; and every region that reaches the
\* translation request and the draw payload has non-blank trimmed text and 4
\* points or more.
C11_ExtractionFilter ==
    /\ pc \in {"pages", "blocks", "paragraphs", "sort"} =>
          /\ Len(regions) = Len(Survivors)
          /\ \A i \in 1..Len(regions) : regions[i] = RegionAsClaimed(Survivors[i])
          /\ \A i, j \in 1..Len(visited) :
                i < j => PreOrderBefore(visited[i], visited[j])
          /\ \A i \in 1..Len(visited) :
                /\ visited[i].page \in 1..pI
                /\ visited[i].page < pI \/ visited[i].block \in 1..bI
    /\ pc \in {"sort", "translate", "pair", "overlay"} =>
          /\ Len(regions) = Len(Survivors)
          /\ \A i \in 1..Len(regions) : WellFormedRegion(regions[i])
          /\ \A v \in {Survivors[i] : i \in 1..Len(Survivors)} :
                \E i \in 1..Len(regions) : regions[i] = RegionAsClaimed(v)
    /\ pc \in {"pair", "overlay"} =>
          /\ Len(sent) = Len(regions)
          /\ \A i \in 1..Len(sent) : sent[i] # <<>> /\ TrimWs(sent[i]) = sent[i]
    /\ pc = "overlay" =>
          /\ Len(toDraw) = Len(Survivors)
          /\ \A i \in 1..Len(toDraw) : WellFormedRegion(toDraw[i])

\* three paragraphs of two pages visited: one dropped for its blank text or
\* its short polygon, one kept with coordinates replaced by 0 and one kept
\* after the dropped one; the two kept reach the draw payload
C11_Witness ==
    /\ pc = "overlay"
    /\ Len(visited) = 3
    /\ visited[1].page # visited[3].page
    /\ ~Survives(visited[2])
    /\ Survives(visited[3])
    /\ \E i \in {1, 3} :
          \E k \in 1..VertexCount(visited[i].pg) : visited[i].pg.vertices[k].nil
    /\ Len(toDraw) = 2
    /\ \E i \in 1..2 :
          /\ Len(toDraw[i].box) = 5
          /\ toDraw[i].box[1] = [x |-> 0, y |-> 0]
          /\ toDraw[i].box[2] = [x |-> 25, y |-> 0]
          /\ toDraw[i].box[4] = [x |-> 0, y |-> 27]

----------------------------------------------------------------------------
(* Order of rendering: C12 *)

Pixels == {[x |-> px, y |-> py] : px \in 0..(img.width - 1), py \in 0..(img.height - 1)}

\* the pixels a drawing operation paints: the rectangle of a fillRect, the
\* box of a line of text (its measured width, its font size below its top)
Paints(o, p) ==
    /\ o.x <= p.x
    /\ p.x < o.x + o.w
    /\ o.y <= p.y
    /\ p.y < o.y + o.h

\* what a pixel shows after the operations: the fill of the last operation
\* that painted it, or the uploaded image
PixelAfter(os, p) ==
    LET painted == {n \in 1..Len(os) : Paints(os[n], p)}
    IN IF painted = {} THEN "image" ELSE os[MaxOf(painted)].style

SameImage(os, ps) == \A p \in Pixels : PixelAfter(os, p) = PixelAfter(ps, p)

BothRendered == pc = "done" /\ pass = 2

Overlap(a, b) ==
    /\ a.x < b.x + b.w
    /\ b.x < a.x + a.w
    /\ a.y < b.y + b.h
    /\ b.y < a.y + a.h

RectsDisjoint ==
    \A i, j \in 1..Len(rendered) :
        i # j => ~Overlap(rendered[i].rect, rendered[j].rect)

\* no line of text drawn for a region paints a pixel of another region's rect
TextKeepsOffOtherRects ==
    \A n \in 1..Len(ops) :
        ops[n].op = "fillText" =>
            \A j \in 1..Len(rendered) :
                j # ops[n].region => ~Overlap(ops[n], rendered[j].rect)

\* what was computed for a region is the same in both calls, wherever the
\* region stands in the list
SameOutcomePerRegion ==
    /\ Len(rendered) = Len(firstRendered)
    /\ \A i \in 1..Len(firstDraw) :
          \A j \in 1..Len(toDraw) :
              firstDraw[i] = toDraw[j] => firstRendered[i] = rendered[j]

\* C12 as claimed: for a list of regions whose rects do not overlap pairwise,
\* rendering the regions in any order gives the same final image, and what
\* is computed for a region (rect, font size, lines) does not depend on the
\* regions processed before it.
C12_SameImageDisjointRects ==
    BothRendered =>
        /\ SameOutcomePerRegion
        /\ RectsDisjoint => SameImage(ops, firstOps)

\* C12 as amended: the final image is the same in any order when the rects
\* do not overlap pairwise and no region's drawn text reaches into another
\* region's rect; what is computed for a region never depends on the
\* regions processed before it.
C12_SameImageDisjointFootprints ==
    BothRendered =>
        /\ SameOutcomePerRegion
        /\ (RectsDisjoint /\ TextKeepsOffOtherRects) => SameImage(ops, firstOps)

\* two regions with different fonts rendered in both orders, each with text
\* drawn inside its own rect
C12_Witness ==
    /\ BothRendered
    /\ Len(toDraw) = 2
    /\ toDraw # firstDraw
    /\ RectsDisjoint
    /\ TextKeepsOffOtherRects
    /\ rendered[1].drawn # <<>>
    /\ rendered[2].drawn # <<>>
    /\ rendered[1].fontSize # rendered[2].fontSize
    /\ rendered[1].lines # rendered[2].lines

----------------------------------------------------------------------------
(* Truncation: C13 *)

\* the font-fit loop ended because the lines fit the drawable height
FitsHeight(n, lh, r) == n * lh <= r.maxH

\* C13: when the font-fit loop ends because lines.length * lineHeight <=
\* maxH, the draw loop draws every wrapped line, also for a rect so small
\* that maxW or maxH is raised to 10; a line is dropped only when the loop
\* ended because fontSize <= 10 with the lines not fitting.
C13_TruncationOnlyAtFloor ==
    /\ (pc = "draw" /\ FitsHeight(Len(lines), lineHeight, rect)) =>
          \A i \in li..Len(lines) :
              ~DrawStop(cy + (i - li) * lineHeight, rect, lineHeight)
    /\ \A k \in 1..Len(rendered) :
          LET d == rendered[k]
          IN /\ FitsHeight(Len(d.lines), d.lineHeight, d.rect)
                   => Len(d.drawn) = Len(d.lines)
             /\ Len(d.drawn) < Len(d.lines) =>
                   /\ d.fontSize <= 10
                   /\ ~FitsHeight(Len(d.lines), d.lineHeight, d.rect)

\* a rect narrower than 10 whose maxW is raised to 10: the text fits the
\* height at the first font size and its line is drawn
C13_Witness ==
    /\ pc = "done"
    /\ Len(rendered) = 1
    /\ rendered[1].rect.w < 10
    /\ rendered[1].rect.maxW = 10
    /\ rendered[1].fontSize > 10
    /\ rendered[1].lines # <<>>
    /\ FitsHeight(Len(rendered[1].lines), rendered[1].lineHeight, rendered[1].rect)
    /\ Len(rendered[1].drawn) = Len(rendered[1].lines)

\* the other cases of C13 that are reached: several lines that fit after a
\* shrink, and a rect whose maxH is raised to 10 with a line dropped
C13_SeveralLinesFit ==
    /\ pc = "done"
    /\ Len(rendered) = 1
    /\ rendered[1].shrinks >= 1
    /\ Len(rendered[1].lines) >= 2
    /\ rendered[1].fontSize > 10
    /\ Len(rendered[1].drawn) = Len(rendered[1].lines)

C13_DroppedAtFloor ==
    /\ pc = "done"
    /\ Len(rendered) = 1
    /\ rendered[1].rect.h < 10
    /\ rendered[1].rect.maxH = 10
    /\ Len(rendered[1].drawn) < Len(rendered[1].lines)

----------------------------------------------------------------------------
(* Browser client: C14 *)

\* C14: while a /translate-image request is in flight the translate button
\* is disabled, at most one request is in flight, and an output image that
\* is shown is the result for the file selected now.
C14_OneRequestCurrentResult ==
    pc = "client" =>
        /\ requests # <<>> => btnDisabled
        /\ Len(requests) <= 1
        /\ outImg # 0 => outImg = currentFile

\* the parts of C14 taken one by one
C14_DisabledInFlight == (pc = "client" /\ requests # <<>>) => btnDisabled
C14_AtMostOneInFlight == pc = "client" => Len(requests) <= 1
C14_ResultOfCurrentFile == (pc = "client" /\ outImg # 0) => outImg = currentFile

----------------------------------------------------------------------------
(* Success counter: C15 *)

\* C15: after any number of calls of incrementCount, getCount returns the
\* count accumulated by them (5 for each call), and after a call the width
\* of the progress bar is min(count, 100) percent.
C15_BarFollowsCount ==
    pc = "counter" =>
        /\ count = 5 * calls
        /\ got.value = 5 * got.calls
        /\ calls > 0 => barWidth = Percent(IF count < 100 THEN count ELSE 100)

\* the parts of C15 that hold: the count returned, and a bar that no call
\* changes
C15_CountAccumulates ==
    pc = "counter" => (count = 5 * calls /\ got.value = 5 * got.calls)
C15_BarNeverSet == pc = "counter" => barWidth \in {NoWidth, Percent(0)}

============================================================================
